---------------------------- MODULE Spec2Model ----------------------------
(***************************************************************************)
(* Camera controller of the black-hole visualisation                       *)
(* (src/src/camera/CinematicCamera.cpp, second translation unit, lines     *)
(* 292-654) as a state machine.                                            *)
(*                                                                         *)
(* Reals are decimal fixed point: the integer n stands for n / Scale, with *)
(* Scale = 10^6.  Products are rounded to the nearest unit, lengths are    *)
(* the floor of the exact square root, so one arithmetic step is off by at *)
(* most one unit (1e-6); sin, cos and exp are summed from their series.    *)
(* All intermediate values stay below 2^31.                                *)
(***************************************************************************)
EXTENDS Integers, Sequences, FiniteSets, TLC

(***************************************************************************)
(* Fixed-point arithmetic (the double arithmetic of the source).           *)
(***************************************************************************)
Half == 10 * 10 * 10
Scale == Half * Half

Abs(a) == IF a < 0 THEN -a ELSE a

Sgn(a) == IF a < 0 THEN -1 ELSE 1

\* |a| * |b| / Scale rounded to nearest, computed in two limbs of base Half.
MulAbs(a, b) ==
  LET ah == a \div Half
      al == a % Half
      bh == b \div Half
      bl == b % Half
      t  == ah * bl + al * bh
      low == (t % Half) * Half + al * bl
  IN  ah * bh + (t \div Half) + ((low + (Scale \div 2)) \div Scale)

\* a * b on doubles.
Mul(a, b) == Sgn(a) * Sgn(b) * MulAbs(Abs(a), Abs(b))

\* One decimal digit of a long division: <<quotient so far, remainder>>.
DivStep(qr, b) ==
  LET r10 == qr[2] * 10
  IN  <<qr[1] * 10 + (r10 \div b), r10 % b>>

\* |a| / |b| for b > 0: six digits of long division, truncated.
DivAbs(a, b) ==
  LET s0 == <<a \div b, a % b>>
      s1 == DivStep(s0, b)
      s2 == DivStep(s1, b)
      s3 == DivStep(s2, b)
      s4 == DivStep(s3, b)
      s5 == DivStep(s4, b)
      s6 == DivStep(s5, b)
  IN  s6[1]

\* a / b on doubles (b # 0).
Div(a, b) == Sgn(a) * Sgn(b) * DivAbs(Abs(a), Abs(b))

\* The exact square of |a| as <<high, low>> with value high * Scale + low.
Sq2(a) ==
  LET ah == a \div Half
      al == a % Half
      t  == 2 * ah * al
      low == (t % Half) * Half + al * al
  IN  <<ah * ah + (t \div Half) + (low \div Scale), low % Scale>>

Add2(p, q) ==
  LET low == p[2] + q[2]
  IN  <<p[1] + q[1] + (low \div Scale), low % Scale>>

Le2(p, q) == p[1] < q[1] \/ (p[1] = q[1] /\ p[2] <= q[2])

\* Largest r in lo..hi with r * r <= n (n in two limbs), by bisection.
RECURSIVE SqrtBetween(_, _, _)
SqrtBetween(n, lo, hi) ==
  IF lo >= hi THEN lo
  ELSE LET mid == (lo + hi + 1) \div 2
       IN  IF Le2(Sq2(mid), n) THEN SqrtBetween(n, mid, hi)
           ELSE SqrtBetween(n, lo, mid - 1)

\* Largest r in lo..hi with r * r <= h.
RECURSIVE RootBetween(_, _, _)
RootBetween(h, lo, hi) ==
  IF lo >= hi THEN lo
  ELSE IF ((lo + hi + 1) \div 2) * ((lo + hi + 1) \div 2) <= h
         THEN RootBetween(h, (lo + hi + 1) \div 2, hi)
         ELSE RootBetween(h, lo, ((lo + hi + 1) \div 2) - 1)

RootMax == 46 * Half

Min(a, b) == IF a < b THEN a ELSE b

Max(a, b) == IF a > b THEN a ELSE b

\* The root of n lies in r0 * Half .. r0 * Half + Half - 1 when r0 is the root
\* of its high limb, and at most (500 \div r0) + 1 below the tangent estimate g.
SqrtNear(n, r0, g) == SqrtBetween(n, Max(r0 * Half, g - ((500 \div r0) + 1)), g)

SqrtFrom(n, r0) ==
  IF r0 = 0 THEN SqrtBetween(n, 0, Half - 1)
  ELSE SqrtNear(n, r0,
         r0 * Half + Min(Half - 1,
                         ((n[1] - r0 * r0) * Half + (n[2] \div Half)) \div (2 * r0)))

\* std::sqrt of the two-limb value n / Scale^2, in fixed point: the floor of
\* the exact root.
Sqrt2(n) == SqrtFrom(n, RootBetween(n[1], 0, RootMax))

\* The literal i.f of the source, f given in millionths.
Fx(i, f) == i * Scale + f

Pi == Fx(3, 141593)

\* a / n for an integer n > 0, rounded to the nearest unit.
DivInt(a, n) == Sgn(a) * ((2 * Abs(a) + n) \div (2 * n))

\* Sum of an alternating power series from `term` on: the next term is
\* -term * x2 / (k * (k + 1)), as in the series of sin (k = 2) and cos (k = 1).
RECURSIVE AltSeries(_, _, _)
AltSeries(term, x2, k) ==
  IF term = 0 \/ k > 20 THEN 0
  ELSE term + AltSeries(DivInt(0 - Mul(term, x2), k * (k + 1)), x2, k + 2)

\* The angle x brought into [-Pi, Pi).
Wrap(x) == ((x + Pi) % (2 * Pi)) - Pi

\* An angle of [-Pi, Pi) reflected into [-Pi/2, Pi/2] (same sine).
Fold(r) ==
  IF 2 * r > Pi THEN Pi - r
  ELSE IF 2 * r < 0 - Pi THEN (0 - Pi) - r
  ELSE r

SinFolded(f) == AltSeries(f, Mul(f, f), 2)

\* std::sin
Sin(x) == SinFolded(Fold(Wrap(x)))

\* cos of r in [0, Pi]: cos(r) = -cos(Pi - r) beyond a quarter turn.
CosFolded(r) ==
  IF 2 * r > Pi THEN 0 - AltSeries(Scale, Mul(Pi - r, Pi - r), 1)
  ELSE AltSeries(Scale, Mul(r, r), 1)

\* std::cos
Cos(x) == CosFolded(Abs(Wrap(x)))

\* Sum of the series of exp(-y) from the term of order k on, 0 <= y <= 1/2.
RECURSIVE ExpSeries(_, _, _)
ExpSeries(term, y, k) ==
  IF term = 0 \/ k > 12 THEN 0
  ELSE term + ExpSeries(DivInt(0 - Mul(term, y), k), y, k + 1)

Square(h) == Mul(h, h)

\* exp(-x) for x >= 0: exp(-x) = exp(-x/2)^2 until x <= 1/2, then the series.
RECURSIVE ExpNeg(_)
ExpNeg(x) ==
  IF 2 * x <= Scale THEN ExpSeries(Scale, x, 1)
  ELSE Square(ExpNeg(x \div 2))

(***************************************************************************)
(* Vector3 (include/utils/Vector3.hpp is not among the sources: the        *)
(* operations are the ones sections 2 and 3 of the specification list).    *)
(***************************************************************************)
Vec(x, y, z) == <<x, y, z>>

Zero3 == <<0, 0, 0>>

VAdd(a, b) == <<a[1] + b[1], a[2] + b[2], a[3] + b[3]>>

VSub(a, b) == <<a[1] - b[1], a[2] - b[2], a[3] - b[3]>>

VScale(a, s) == [i \in 1..3 |-> Mul(a[i], s)]

Dot(a, b) == Mul(a[1], b[1]) + Mul(a[2], b[2]) + Mul(a[3], b[3])

Cross(a, b) ==
  <<Mul(a[2], b[3]) - Mul(a[3], b[2]),
    Mul(a[3], b[1]) - Mul(a[1], b[3]),
    Mul(a[1], b[2]) - Mul(a[2], b[1])>>

Length(a) == Sqrt2(Add2(Sq2(Abs(a[1])), Add2(Sq2(Abs(a[2])), Sq2(Abs(a[3])))))

\* The tolerance below which a vector is degenerate (specification, 3 and 7).
Epsilon == Fx(0, 1000)

\* a / len, and the zero vector for a degenerate a, which has no direction.
Unit(a, len) == IF len < Epsilon THEN Zero3 ELSE [i \in 1..3 |-> Div(a[i], len)]

\* normalized()
Normalized(a) == Unit(a, Length(a))

(***************************************************************************)
(* Camera (include/camera/Camera.hpp is not among the sources).            *)
(***************************************************************************)
Origin == Vec(0, 0, 0)

WorldUp == Vec(0, Scale, 0)

WorldX == Vec(Scale, 0, 0)

Frame(f, r, u) == [forward |-> f, right |-> r, up |-> u]

\* The camera c with the basis of the frame fr.
WithFrame(c, fr) ==
  [position |-> c.position, forward |-> fr.forward, right |-> fr.right, up |-> fr.up]

\* forward x worldUp, or forward x (1,0,0) for a vertical forward.
LookRightOr(f, r0) ==
  IF Length(r0) < Epsilon THEN Normalized(Cross(f, WorldX)) ELSE r0

LookFrameWith(f, r) == Frame(f, r, Normalized(Cross(r, f)))

\* The right-handed frame whose forward is the unit vector f.
LookFrame(f) == LookFrameWith(f, LookRightOr(f, Normalized(Cross(f, WorldUp))))

\* Camera::lookAt: the frame whose forward points at the target; a target
\* within Epsilon of the position leaves the frame as it is (specification
\* 4.1 step 1 and 7, DegenerateOrientation).
lookAt(c, target) ==
  IF Length(VSub(target, c.position)) < Epsilon THEN c
  ELSE WithFrame(c, LookFrame(Normalized(VSub(target, c.position))))

\* A camera placed at `position` and pointed at the black hole.
Camera(position) ==
  lookAt([position |-> position, forward |-> Vec(0, 0, 0 - Scale),
          right |-> WorldX, up |-> WorldUp], Origin)

(***************************************************************************)
(* CinematicCamera: constants of the source.                               *)
(***************************************************************************)
Modes == <<"Manual", "SmoothOrbit", "WaveMotion", "RisingSpiral", "CloseFlyby">>

ModeSet == {Modes[i] : i \in 1..Len(Modes)}

\* static_cast<int>(mode)
ModeInt(m) == CHOOSE i \in 0..(Len(Modes) - 1) : Modes[i + 1] = m

\* SDL scancodes the controller reads.
MoveKeys == {"D", "A", "W", "S"}

RotKeys == {"L", "J", "I", "K", "O", "U"}

rotationSpeed == Fx(0, 300000)

baseMoveSpeed == Fx(0, 800000)

moveEasingFactor == Fx(12, 0)

rotationEasingFactor == Fx(15, 0)

\* The frame time cycleMode() passes to updateCameraLookDirection.
TypicalFrameTime == Fx(0, 16000)

\* The length under which the source takes a vector for invalid (0.001).
MinLength == Fx(0, 1000)

\* The per-frame angle above which a rotation is applied (0.0001).
MinRotation == Fx(0, 100)

(***************************************************************************)
(* updateManualMode.  The eased speeds travel as the tuple                 *)
(* <<forward, up, rotUp, rotRight, rotForward>> of the five statics.       *)
(***************************************************************************)
targetSpeedForward(ks) ==
  IF "A" \in ks THEN 0 - baseMoveSpeed
  ELSE IF "D" \in ks THEN baseMoveSpeed
  ELSE 0

targetSpeedUp(ks) ==
  IF "S" \in ks THEN 0 - baseMoveSpeed
  ELSE IF "W" \in ks THEN baseMoveSpeed
  ELSE 0

\* The smoothing factor of a linear blend, easingFactor * deltaTime.
moveSmoothingLinear(deltaTime) == Mul(moveEasingFactor, deltaTime)

\* The smoothing factor with the easing factor left out.
moveSmoothingUneased(deltaTime) == Scale - ExpNeg(deltaTime)

moveSmoothing(deltaTime) == Scale - ExpNeg(Mul(moveEasingFactor, deltaTime))

\* current += (target - current) * smoothing
Eased(current, target, smoothing) == current + Mul(target - current, smoothing)

EasedMoveWith(st, ks, smoothing) ==
  <<Eased(st[1], targetSpeedForward(ks), smoothing),
    Eased(st[2], targetSpeedUp(ks), smoothing), st[3], st[4], st[5]>>

\* The statics after updateManualMode's smoothing.
EasedMove(st, ks, deltaTime) == EasedMoveWith(st, ks, moveSmoothing(deltaTime))

\* cam.position after the movement along forward and up at the eased speeds.
ManualPosition(c, speedForward, speedUp, deltaTime) ==
  VAdd(c.position,
       VAdd(VScale(VScale(c.forward, speedForward), deltaTime),
            VScale(VScale(c.up, speedUp), deltaTime)))

(***************************************************************************)
(* The four trajectories: each yields the new position and phase.          *)
(***************************************************************************)
Phase(pos, angle, radius, time) ==
  [position |-> pos, orbitAngle |-> angle, orbitRadius |-> radius,
   cinematicTime |-> time]

\* (cos(a) * r, y, sin(a) * r)
Around(a, r, y) == Vec(Mul(Cos(a), r), y, Mul(Sin(a), r))

SmoothOrbitAt(a, r, time) ==
  Phase(Around(a, r, Fx(3, 0) + Mul(Sin(Mul(a, Fx(0, 500000))), Fx(1, 500000))),
        a, r, time)

\* The smooth orbit advancing at the rate of the wave motion.
updateSmoothOrbitAtWaveRate(angle, radius, time, deltaTime) ==
  SmoothOrbitAt(angle + Mul(Fx(0, 300000), deltaTime), Fx(15, 0), time)

updateSmoothOrbit(angle, radius, time, deltaTime) ==
  SmoothOrbitAt(angle + Mul(Fx(0, 250000), deltaTime), Fx(15, 0), time)

WaveMotionAt(a, radius, time) ==
  Phase(Vec(Mul(Cos(a), Fx(12, 0)),
            Fx(2, 0) + Mul(Sin(Mul(a, Fx(1, 500000))), Fx(3, 0)),
            Mul(Sin(Mul(a, Fx(2, 0))), Fx(8, 0))), a, radius, time)

updateWaveMotion(angle, radius, time, deltaTime) ==
  WaveMotionAt(angle + Mul(Fx(0, 300000), deltaTime), radius, time)

\* The wrap that forgets to restart the clock.
SpiralWrappedKeepingTime(pos, a, r, time) ==
  IF pos[2] > Fx(8, 0) THEN Phase(Vec(pos[1], Fx(1, 0), pos[3]), a, r, time)
  ELSE Phase(pos, a, r, time)

\* The periodic height reset of the rising spiral.
SpiralWrapped(pos, a, r, time) ==
  IF pos[2] > Fx(8, 0) THEN Phase(Vec(pos[1], Fx(1, 0), pos[3]), a, r, 0)
  ELSE Phase(pos, a, r, time)

RisingSpiralAt(a, r, time) ==
  SpiralWrapped(Around(a, r, Fx(1, 0) + Mul(time, Fx(0, 400000))), a, r, time)

updateRisingSpiral(angle, radius, time, deltaTime) ==
  RisingSpiralAt(angle + Mul(Fx(0, 350000), deltaTime),
                 Fx(10, 0) + Mul(Sin(Mul(time, Fx(0, 300000))), Fx(3, 0)), time)

CloseFlybyAt(a, r, time) ==
  Phase(Around(a, r, Fx(1, 500000) + Mul(Cos(Mul(a, Fx(1, 300000))), Fx(2, 0))),
        a, r, time)

CloseFlybyRadius(a) == Fx(6, 0) + Mul(Sin(Mul(a, Fx(0, 700000))), Fx(2, 0))

CloseFlybyFrom(a, time) == CloseFlybyAt(a, CloseFlybyRadius(a), time)

\* The close flyby with its angle wrapped to one turn.
updateCloseFlybyWrapped(angle, radius, time, deltaTime) ==
  CloseFlybyFrom((angle + Mul(Fx(0, 500000), deltaTime)) % (2 * Pi), time)

updateCloseFlyby(angle, radius, time, deltaTime) ==
  CloseFlybyFrom(angle + Mul(Fx(0, 500000), deltaTime), time)

(***************************************************************************)
(* rotateAroundAxis and updateCameraLookDirection                          *)
(***************************************************************************)
\* v*cos + (axis x v)*sin + axis*(axis . v)*(1 - cos), axis of unit length.
Rodrigues(vec, normalizedAxis, cosAngle, sinAngle) ==
  VAdd(VAdd(VScale(vec, cosAngle), VScale(Cross(normalizedAxis, vec), sinAngle)),
       VScale(VScale(normalizedAxis, Dot(normalizedAxis, vec)), Scale - cosAngle))

\* The rotation about the axis as it comes, not normalized.
rotateAroundRawAxis(vec, axis, angle) ==
  IF angle = 0 \/ Length(axis) < MinLength THEN vec
  ELSE Rodrigues(vec, axis, Cos(angle), Sin(angle))

rotateAroundAxis(vec, axis, angle) ==
  IF angle = 0 \/ Length(axis) < MinLength THEN vec
  ELSE Rodrigues(vec, Normalized(axis), Cos(angle), Sin(angle))

targetRotSpeedUp(ks) ==
  (IF "L" \in ks THEN 0 - rotationSpeed ELSE 0) + (IF "J" \in ks THEN rotationSpeed ELSE 0)

targetRotSpeedRight(ks) ==
  (IF "I" \in ks THEN rotationSpeed ELSE 0) + (IF "K" \in ks THEN 0 - rotationSpeed ELSE 0)

targetRotSpeedForward(ks) ==
  (IF "O" \in ks THEN 0 - rotationSpeed ELSE 0) + (IF "U" \in ks THEN rotationSpeed ELSE 0)

rotSmoothing(deltaTime) == Scale - ExpNeg(Mul(rotationEasingFactor, deltaTime))

EasedRotWith(st, ks, smoothing) ==
  <<st[1], st[2], Eased(st[3], targetRotSpeedUp(ks), smoothing),
    Eased(st[4], targetRotSpeedRight(ks), smoothing),
    Eased(st[5], targetRotSpeedForward(ks), smoothing)>>

\* The statics after updateCameraLookDirection's smoothing.
EasedRot(st, ks, deltaTime) == EasedRotWith(st, ks, rotSmoothing(deltaTime))

\* currentRight: forward x worldUp, or forward x (1,0,0) when that is too short.
CenterRightOr(f, r0) ==
  IF Length(r0) < MinLength THEN Normalized(Cross(f, WorldX)) ELSE r0

CenterFrameWith(f, r) == Frame(f, r, Normalized(Cross(r, f)))

CenterFrame(f) == CenterFrameWith(f, CenterRightOr(f, Normalized(Cross(f, WorldUp))))

\* The frame that faces the black hole centre from a position; the caller
\* has checked the distance.
FrameToCenter(position) == CenterFrame(Normalized(VSub(Origin, position)))

\* A basis vector of the camera is shorter than MinLength.
Invalid(c) ==
  \/ Length(c.forward) < MinLength
  \/ Length(c.right) < MinLength
  \/ Length(c.up) < MinLength

\* The early return taken only for an invalid basis.
TooCloseInvalidOnly(m, c) ==
  /\ Invalid(c)
  /\ Length(VSub(Origin, c.position)) < MinLength

\* Whether updateCameraLookDirection takes one of its two early returns.
TooClose(m, c) ==
  /\ m # "Manual" \/ Invalid(c)
  /\ Length(VSub(Origin, c.position)) < MinLength

\* currentForward, currentRight, currentUp before the rotations.
CurrentFrame(m, c) ==
  IF m # "Manual" \/ Invalid(c) THEN FrameToCenter(c.position)
  ELSE Frame(c.forward, c.right, c.up)

\* 1. forward and right about up.
Yawed(fr, rotSpeedUp) ==
  IF Abs(rotSpeedUp) > MinRotation
    THEN Frame(rotateAroundAxis(fr.forward, fr.up, rotSpeedUp),
               rotateAroundAxis(fr.right, fr.up, rotSpeedUp), fr.up)
    ELSE fr

\* 2. forward and up about right.
Pitched(fr, rotSpeedRight) ==
  IF Abs(rotSpeedRight) > MinRotation
    THEN Frame(rotateAroundAxis(fr.forward, fr.right, rotSpeedRight), fr.right,
               rotateAroundAxis(fr.up, fr.right, rotSpeedRight))
    ELSE fr

\* 3. right and up about forward.
Rolled(fr, rotSpeedForward) ==
  IF Abs(rotSpeedForward) > MinRotation
    THEN Frame(fr.forward, rotateAroundAxis(fr.right, fr.forward, rotSpeedForward),
               rotateAroundAxis(fr.up, fr.forward, rotSpeedForward))
    ELSE fr

\* The three rotations in the opposite order: roll, pitch, yaw.
RotatedRollFirst(fr, rotSpeedUp, rotSpeedRight, rotSpeedForward) ==
  Yawed(Pitched(Rolled(fr, rotSpeedForward), rotSpeedRight), rotSpeedUp)

\* The three rotations in the order of the source.
Rotated(fr, rotSpeedUp, rotSpeedRight, rotSpeedForward) ==
  Rolled(Pitched(Yawed(fr, rotSpeedUp), rotSpeedRight), rotSpeedForward)

\* "Normalize all vectors"
NormalizedFrame(fr) ==
  Frame(Normalized(fr.forward), Normalized(fr.right), Normalized(fr.up))

NewRightFallback(f, r1) ==
  IF Length(r1) < MinLength THEN Normalized(Cross(f, WorldX)) ELSE r1

NewRightOr(f, r0) ==
  IF Length(r0) < MinLength THEN NewRightFallback(f, Normalized(Cross(f, WorldUp)))
  ELSE r0

\* "Make right orthogonal to forward"
NewRight(f, r) == NewRightOr(f, Normalized(VSub(r, VScale(f, Dot(f, r)))))

NewUpOr(f, r, u0) ==
  IF Length(u0) < MinLength THEN Normalized(Cross(r, f)) ELSE u0

\* The handedness test with its sign turned.
LeftHanded(f, r, u) ==
  IF Dot(Cross(r, f), u) > 0 THEN VScale(u, 0 - Scale) ELSE u

\* "Ensure right-handed coordinate system"
RightHanded(f, r, u) ==
  IF Dot(Cross(r, f), u) < 0 THEN VScale(u, 0 - Scale) ELSE u

\* "Make up orthogonal to both forward and right"
NewUp(f, r, u) ==
  RightHanded(f, r,
    NewUpOr(f, r, Normalized(VSub(VSub(u, VScale(f, Dot(f, u))),
                                  VScale(r, Dot(r, u))))))

GramSchmidtWith(f, r, u) == Frame(f, r, NewUp(f, r, u))

\* Gram-Schmidt with forward kept as the primary direction.
GramSchmidt(fr) == GramSchmidtWith(fr.forward, NewRight(fr.forward, fr.right), fr.up)

\* The camera after updateCameraLookDirection; st holds the eased rates.
LookDirection(m, c, st, deltaTime) ==
  IF TooClose(m, c) THEN lookAt(c, Origin)
  ELSE WithFrame(c, GramSchmidt(NormalizedFrame(
         Rotated(CurrentFrame(m, c), Mul(st[3], deltaTime), Mul(st[4], deltaTime),
                 Mul(st[5], deltaTime)))))

(***************************************************************************)
(* update(), cycleMode() and reset() as functions of the state they read:  *)
(* each yields the camera, the phase and the statics it leaves.            *)
(***************************************************************************)
Result(c, angle, radius, time, st) ==
  [cam |-> c, orbitAngle |-> angle, orbitRadius |-> radius,
   cinematicTime |-> time, statics |-> st]

\* The switch falling into the Manual case in every mode.
PositionedManually(m, c, angle, radius, time, st, deltaTime) ==
  Phase(ManualPosition(c, st[1], st[2], deltaTime), angle, radius, time)

\* The position step of update(): the switch over the mode.
Positioned(m, c, angle, radius, time, st, deltaTime) ==
  IF m = "Manual"
    THEN Phase(ManualPosition(c, st[1], st[2], deltaTime), angle, radius, time)
  ELSE IF m = "SmoothOrbit" THEN updateSmoothOrbit(angle, radius, time, deltaTime)
  ELSE IF m = "WaveMotion" THEN updateWaveMotion(angle, radius, time, deltaTime)
  ELSE IF m = "RisingSpiral" THEN updateRisingSpiral(angle, radius, time, deltaTime)
  ELSE updateCloseFlyby(angle, radius, time, deltaTime)

\* The move speeds eased by update() in every mode.
MoveStaticsEveryMode(m, st, ks, deltaTime) == EasedMove(st, ks, deltaTime)

\* The statics after the position step: only updateManualMode eases the moves.
MoveStatics(m, st, ks, deltaTime) ==
  IF m = "Manual" THEN EasedMove(st, ks, deltaTime) ELSE st

\* updateCameraLookDirection(deltaTime) called with the camera at ph.position.
Looked(m, c, ph, st, deltaTime) ==
  Result(LookDirection(m, [c EXCEPT !.position = ph.position], st, deltaTime),
         ph.orbitAngle, ph.orbitRadius, ph.cinematicTime, st)

\* update() turning the camera first and moving it along the turned basis.
PlacedAfterLook(c, ph, st) ==
  Result([c EXCEPT !.position = ph.position], ph.orbitAngle, ph.orbitRadius,
         ph.cinematicTime, st)

PositionedAfterLook(m, c, angle, radius, time, st, rotated, deltaTime) ==
  PlacedAfterLook(c, Positioned(m, c, angle, radius, time, st, deltaTime), rotated)

UpdatedLookingFirst(m, c, angle, radius, time, st, deltaTime, ks) ==
  PositionedAfterLook(m, LookDirection(m, c, EasedRot(st, ks, deltaTime), deltaTime),
                      angle, radius, time, st, EasedRot(st, ks, deltaTime), deltaTime)

\* update() from the eased move speeds on.
UpdatedFrom(m, c, angle, radius, time, st, deltaTime, ks) ==
  Looked(m, c, Positioned(m, c, angle, radius, time, st, deltaTime),
         EasedRot(st, ks, deltaTime), deltaTime)

\* update() whose clock runs in the cinematic modes only.
UpdatedHoldingManualTime(m, c, angle, radius, time, st, deltaTime, ks) ==
  UpdatedFrom(m, c, angle, radius, IF m = "Manual" THEN time ELSE time + deltaTime,
              MoveStatics(m, st, ks, deltaTime), deltaTime, ks)

\* update(deltaTime, keyStates): cinematicTime += deltaTime, the position
\* step of the mode, then updateCameraLookDirection(deltaTime).
Updated(m, c, angle, radius, time, st, deltaTime, ks) ==
  UpdatedFrom(m, c, angle, radius, time + deltaTime,
              MoveStatics(m, st, ks, deltaTime), deltaTime, ks)

\* The wrap taken one mode early.
NextModeShort(m) == Modes[((ModeInt(m) + 1) % 4) + 1]

\* (static_cast<int>(mode) + 1) % 5
NextMode(m) == Modes[((ModeInt(m) + 1) % 5) + 1]

CycledWith(m, c, radius, st) ==
  Result(LookDirection(m, c, st, TypicalFrameTime), 0, radius, 0, st)

\* cycleMode() easing by the frame time of 60 Hz instead of 0.016.
CycledAtFrame60(m, c, radius, st, ks) ==
  CycledWith(m, c, radius, EasedRot(st, ks, Fx(0, 16667)))

\* cycleMode() that puts the camera on the new trajectory before it looks.
CycledOntoTrajectory(m, c, radius, st, ks) ==
  CycledWith(m, [c EXCEPT !.position = Positioned(m, c, 0, radius, 0, st, 0).position],
             radius, EasedRot(st, ks, TypicalFrameTime))

\* cycleMode(), m being the mode it switches to.
Cycled(m, c, radius, st, ks) ==
  CycledWith(m, c, radius, EasedRot(st, ks, TypicalFrameTime))

\* reset() that forgets the orbit angle.
ResettedKeepingAngle(c, initialPosition, radius, st) ==
  Result(lookAt([c EXCEPT !.position = initialPosition], Origin),
         Fx(1, 0), radius, 0, st)

\* reset() that also brings the eased speeds to rest.
ResettedAtRest(c, initialPosition, radius, st) ==
  Result(lookAt([c EXCEPT !.position = initialPosition], Origin), 0, radius, 0,
         <<0, 0, 0, 0, 0>>)

\* reset()
Resetted(c, initialPosition, radius, st) ==
  Result(lookAt([c EXCEPT !.position = initialPosition], Origin), 0, radius, 0, st)

(***************************************************************************)
(* ResolutionManager: the index of the current preset and its persistence  *)
(* as one decimal integer in $HOME/.blackhole_resolution.  A file is the    *)
(* sequence of its characters.                                             *)
(***************************************************************************)
NUM_PRESETS == 11

\* std::numeric_limits<int>::max()
IntMax == 2147483647

Digits == <<"0", "1", "2", "3", "4", "5", "6", "7", "8", "9">>

DigitValue(ch) == (CHOOSE i \in 1..10 : Digits[i] = ch) - 1

IsDigit(ch) == \E i \in 1..10 : Digits[i] = ch

\* operator<< of a non-negative int: its decimal digits.
RECURSIVE DecimalDigits(_)
DecimalDigits(n) ==
  IF n < 10 THEN <<Digits[n + 1]>>
  ELSE Append(DecimalDigits(n \div 10), Digits[(n % 10) + 1])

\* file << currentIndex << std::endl
Formatted(n) == Append(DecimalDigits(n), "\n")

\* The sentry of operator>> skips leading white space.
RECURSIVE SkipWhitespace(_)
SkipWhitespace(text) ==
  IF text # <<>> /\ Head(text) \in {" ", "\n", "\t"}
    THEN SkipWhitespace(Tail(text))
  ELSE text

\* num_get accumulating the leading digits of text onto acc; a magnitude
\* that does not fit an int stops at IntMax.
RECURSIVE Accumulated(_, _)
Accumulated(text, acc) ==
  IF text = <<>> \/ ~IsDigit(Head(text)) THEN acc
  ELSE IF acc > (IntMax - DigitValue(Head(text))) \div 10 THEN IntMax
  ELSE Accumulated(Tail(text), acc * 10 + DigitValue(Head(text)))

\* The digits after an optional sign: 0 when there is none.
Signed(text) ==
  IF Head(text) = "-" THEN 0 - Accumulated(Tail(text), 0)
  ELSE IF Head(text) = "+" THEN Accumulated(Tail(text), 0)
  ELSE Accumulated(text, 0)

\* file >> savedIndex on an open file: at the end of the file after the white
\* space nothing is stored and savedIndex keeps the indeterminate value it was
\* declared with; otherwise the number parsed is stored, 0 when no digit
\* could be read.
ExtractedFrom(rest, indeterminate) ==
  IF rest = <<>> THEN indeterminate ELSE Signed(rest)

Extracted(text, indeterminate) == ExtractedFrom(SkipWhitespace(text), indeterminate)

\* The guard of loadResolution and of setResolution.
Accepted(index, candidate) ==
  IF candidate >= 0 /\ candidate < NUM_PRESETS THEN candidate ELSE index

\* loadResolution(): the index it leaves.
Loaded(index, home, exists, text, indeterminate) ==
  IF home /\ exists THEN Accepted(index, Extracted(text, indeterminate)) ELSE index

\* next()
NextIndex(index) == (index + 1) % NUM_PRESETS

\* previous()
PreviousIndex(index) == (index - 1 + NUM_PRESETS) % NUM_PRESETS

(***************************************************************************)
(* State.  Each controller c is bound to its own camera cam[c]; the five   *)
(* eased speeds are function-local statics of updateManualMode and         *)
(* updateCameraLookDirection, one copy for the whole program.              *)
(***************************************************************************)
Ctrl == {1, 2}

VARIABLES
  cam,                    \* cam[c]: position, forward, right, up
  initialPos,             \* initialPos[c]
  mode,                   \* mode[c]
  orbitAngle,             \* orbitAngle[c]
  orbitRadius,            \* orbitRadius[c]
  cinematicTime,          \* cinematicTime[c]
  currentSpeedForward,    \* static of updateManualMode
  currentSpeedUp,         \* static of updateManualMode
  currentRotSpeedUp,      \* static of updateCameraLookDirection
  currentRotSpeedRight,   \* static of updateCameraLookDirection
  currentRotSpeedForward, \* static of updateCameraLookDirection
  keys,                   \* SDL keyboard state at the latest call
  last,                   \* history: the latest call and the state it started from
  count,                  \* history: number of calls made, by kind
  probe,                  \* the latest call of the free function rotateAroundAxis
  resolution              \* the ResolutionManager, its environment and its latest call

statics == <<currentSpeedForward, currentSpeedUp, currentRotSpeedUp,
             currentRotSpeedRight, currentRotSpeedForward>>

vars == <<cam, initialPos, mode, orbitAngle, orbitRadius, cinematicTime,
          currentSpeedForward, currentSpeedUp, currentRotSpeedUp,
          currentRotSpeedRight, currentRotSpeedForward, keys, last, count, probe,
          resolution>>

\* What a call starts from, kept for the properties that compare before and after.
Before(name, c, deltaTime) ==
  [name |-> name, c |-> c, deltaTime |-> deltaTime, cam |-> cam[c],
   mode |-> mode[c], orbitAngle |-> orbitAngle[c], orbitRadius |-> orbitRadius[c],
   cinematicTime |-> cinematicTime[c], statics |-> statics, keys |-> keys]

\* ResolutionManager(): currentIndex(5), then loadResolution(); home tells
\* whether HOME is set, exists whether the file opens, text is its content.
ResolutionManager(home, exists, text, indeterminate) ==
  resolution = [currentIndex |-> Loaded(5, home, exists, text, indeterminate),
                home |-> home, exists |-> exists, text |-> text,
                name |-> "construct", arg |-> 0, before |-> 5, calls |-> 0]

\* CinematicCamera(camera, initialPosition) for every controller, each camera
\* standing at its controller's initial position.
ConstructCameras(positions) ==
  /\ initialPos = positions
  /\ cam = [c \in Ctrl |-> Camera(positions[c])]
  /\ mode = [c \in Ctrl |-> "Manual"]
  /\ orbitAngle = [c \in Ctrl |-> 0]
  /\ orbitRadius = [c \in Ctrl |-> Fx(15, 0)]
  /\ cinematicTime = [c \in Ctrl |-> 0]
  /\ currentSpeedForward = 0
  /\ currentSpeedUp = 0
  /\ currentRotSpeedUp = 0
  /\ currentRotSpeedRight = 0
  /\ currentRotSpeedForward = 0
  /\ keys = {}
  /\ last = [name |-> "construct", c |-> 0, deltaTime |-> 0,
             cam |-> Camera(positions[1]), mode |-> "Manual", orbitAngle |-> 0,
             orbitRadius |-> Fx(15, 0), cinematicTime |-> 0,
             statics |-> <<0, 0, 0, 0, 0>>, keys |-> {}]
  /\ count = [update |-> 0, cycleMode |-> 0, reset |-> 0, external |-> 0]
  /\ probe = [vec |-> Zero3, axis |-> Zero3, angle |-> 0, out |-> Zero3, calls |-> 0]

\* The cameras with a ResolutionManager that finds no saved preference.
Construct(positions) ==
  /\ ConstructCameras(positions)
  /\ ResolutionManager(FALSE, FALSE, <<>>, 0)

\* The call `name` on controller c ends: res is what it leaves, m its mode.
Install(name, c, deltaTime, ks, m, res) ==
  /\ cam' = [cam EXCEPT ![c] = res.cam]
  /\ mode' = [mode EXCEPT ![c] = m]
  /\ orbitAngle' = [orbitAngle EXCEPT ![c] = res.orbitAngle]
  /\ orbitRadius' = [orbitRadius EXCEPT ![c] = res.orbitRadius]
  /\ cinematicTime' = [cinematicTime EXCEPT ![c] = res.cinematicTime]
  /\ currentSpeedForward' = res.statics[1]
  /\ currentSpeedUp' = res.statics[2]
  /\ currentRotSpeedUp' = res.statics[3]
  /\ currentRotSpeedRight' = res.statics[4]
  /\ currentRotSpeedForward' = res.statics[5]
  /\ keys' = ks
  /\ last' = Before(name, c, deltaTime)
  /\ count' = [count EXCEPT ![name] = @ + 1]
  /\ UNCHANGED <<initialPos, probe, resolution>>

\* update(deltaTime, keyStates) on controller c; ks is SDL's key array, which
\* the frame loop passes and updateCameraLookDirection polls.
Update(c, deltaTime, ks) ==
  Install("update", c, deltaTime, ks, mode[c],
          Updated(mode[c], cam[c], orbitAngle[c], orbitRadius[c], cinematicTime[c],
                  statics, deltaTime, ks))

\* cycleMode() on controller c while the keys ks are down.
CycleMode(c, ks) ==
  Install("cycleMode", c, TypicalFrameTime, ks, NextMode(mode[c]),
          Cycled(NextMode(mode[c]), cam[c], orbitRadius[c], statics, ks))

\* reset() that also returns the controller to Manual mode.
ResetToManual(c) ==
  Install("reset", c, 0, keys, "Manual",
          Resetted(cam[c], initialPos[c], orbitRadius[c], statics))

\* reset() on controller c.
Reset(c) ==
  Install("reset", c, 0, keys, mode[c],
          Resetted(cam[c], initialPos[c], orbitRadius[c], statics))

\* Another owner of the camera zeroes one of its basis vectors between two
\* calls (specification 3: the invariant "may transiently break").
ExternalZero(c, field) ==
  Install("external", c, 0, keys, mode[c],
          Result([cam[c] EXCEPT ![field] = Zero3], orbitAngle[c], orbitRadius[c],
                 cinematicTime[c], statics))

Calls == count.update + count.cycleMode + count.reset + count.external

(***************************************************************************)
(* Spec: one session of controller 1, any calls in any order.              *)
(***************************************************************************)
MaxCalls == 3

MaxExternal == 1

\* 1/60 s, and a long frame of 1/4 s.
Frame60 == Fx(0, 16667)

FrameLong == Fx(0, 250000)

DeltaTimes == {Frame60, FrameLong}

KeySnapshots == {{}, {"D", "J"}, {"W", "K", "U"}}

\* The usual viewpoint, and one a quarter-second flight away from the centre.
FarStart == Vec(0, Fx(3, 0), 0 - Fx(15, 0))

NearStart == Vec(0, 0, Fx(0, 190000))

Init == \E p \in {FarStart, NearStart} : Construct([c \in Ctrl |-> p])

UpdateCall ==
  /\ Calls < MaxCalls
  /\ \E dt \in DeltaTimes, ks \in KeySnapshots : Update(1, dt, ks)

CycleModeCall ==
  /\ Calls < MaxCalls
  /\ \E ks \in KeySnapshots : CycleMode(1, ks)

ResetCall ==
  /\ Calls < MaxCalls
  /\ Reset(1)

ExternalCall ==
  /\ Calls < MaxCalls
  /\ count.external < MaxExternal
  /\ \E field \in {"forward", "right", "up"} : ExternalZero(1, field)

Next == UpdateCall \/ CycleModeCall \/ ResetCall \/ ExternalCall

Spec == Init /\ [][Next]_vars

(***************************************************************************)
(* SpecTour: controller 1 is cycled through the modes with no key down,    *)
(* the frames being long enough for the rising spiral to wrap.             *)
(***************************************************************************)
MaxTourCycles == 6

MaxTourUpdates == 3

TourTimes == {Fx(6, 0), Fx(9, 0)}

InitTour == Construct([c \in Ctrl |-> FarStart])

TourUpdate ==
  /\ count.update < MaxTourUpdates
  /\ \E dt \in TourTimes : Update(1, dt, {})

TourCycleMode ==
  /\ count.cycleMode < MaxTourCycles
  /\ CycleMode(1, {})

NextTour == TourUpdate \/ TourCycleMode

SpecTour == InitTour /\ [][NextTour]_vars

(***************************************************************************)
(* SpecKeys: one update of two seconds under every combination of keys.    *)
(***************************************************************************)
MaxKeyUpdates == 1

SettleTime == Fx(2, 0)

InitKeys == Construct([c \in Ctrl |-> FarStart])

KeysUpdate ==
  /\ count.update < MaxKeyUpdates
  /\ \E ks \in SUBSET (MoveKeys \cup RotKeys) : Update(1, SettleTime, ks)

NextKeys == KeysUpdate

SpecKeys == InitKeys /\ [][NextKeys]_vars

(***************************************************************************)
(* SpecSmooth: one key is held for HoldSteps frames of 1/60 s in Manual    *)
(* mode, then released for as many.                                        *)
(***************************************************************************)
HoldSteps == 100

InitSmooth == Construct([c \in Ctrl |-> FarStart])

Press ==
  /\ count.update = 0
  /\ \E k \in MoveKeys \cup RotKeys : Update(1, Frame60, {k})

Hold ==
  /\ count.update > 0
  /\ count.update < HoldSteps
  /\ Update(1, Frame60, keys)

Release ==
  /\ count.update >= HoldSteps
  /\ count.update < 2 * HoldSteps
  /\ Update(1, Frame60, {})

NextSmooth == Press \/ Hold \/ Release

SpecSmooth == InitSmooth /\ [][NextSmooth]_vars

(***************************************************************************)
(* SpecTwo: two controllers, each bound to its own camera.                 *)
(***************************************************************************)
MaxTwoCalls == 3

TwoKeys == {{}, {"D", "J"}}

InitTwo == Construct([c \in Ctrl |-> IF c = 1 THEN FarStart ELSE Vec(Fx(10, 0), 0, 0)])

TwoUpdate ==
  /\ Calls < MaxTwoCalls
  /\ \E c \in Ctrl, ks \in TwoKeys : Update(c, Frame60, ks)

TwoCycleMode ==
  /\ Calls < MaxTwoCalls
  /\ \E c \in Ctrl, ks \in TwoKeys : CycleMode(c, ks)

NextTwo == TwoUpdate \/ TwoCycleMode

SpecTwo == InitTwo /\ [][NextTwo]_vars

(***************************************************************************)
(* SpecRuns: two runs side by side.  Controller 1 makes a call with no key *)
(* down; controller 2, whose camera starts elsewhere, repeats that call    *)
(* with the same deltaTime while keys are down.                            *)
(***************************************************************************)
MaxRunUpdates == 2

MaxRunCycles == 4

MaxRunResets == 1

RunTimes == {0, Fx(9, 0)}

RunKeys == {{"D", "J"}, {"W", "K", "U"}}

InitRuns == Construct([c \in Ctrl |-> IF c = 1 THEN FarStart ELSE Vec(Fx(10, 0), 0, 0)])

RunUpdate ==
  /\ Calls % 2 = 0
  /\ count.update < 2 * MaxRunUpdates
  /\ \E dt \in RunTimes : Update(1, dt, {})

RunCycleMode ==
  /\ Calls % 2 = 0
  /\ count.cycleMode < 2 * MaxRunCycles
  /\ CycleMode(1, {})

RunReset ==
  /\ Calls % 2 = 0
  /\ count.reset < 2 * MaxRunResets
  /\ Reset(1)

FollowUpdate ==
  /\ Calls % 2 = 1
  /\ last.name = "update"
  /\ \E ks \in RunKeys : Update(2, last.deltaTime, ks)

FollowCycleMode ==
  /\ Calls % 2 = 1
  /\ last.name = "cycleMode"
  /\ CycleMode(2, {"D", "J"})

FollowReset ==
  /\ Calls % 2 = 1
  /\ last.name = "reset"
  /\ Reset(2)

NextRuns ==
  \/ RunUpdate \/ RunCycleMode \/ RunReset
  \/ FollowUpdate \/ FollowCycleMode \/ FollowReset

SpecRuns == InitRuns /\ [][NextRuns]_vars

(***************************************************************************)
(* SpecRotate: the free function rotateAroundAxis called on its own.       *)
(***************************************************************************)
MaxRotateCalls == 1

RotateVecs ==
  {Vec(Scale, 0, 0), Vec(0, Scale, 0), Vec(Fx(0, 600000), 0, 0 - Fx(0, 800000)),
   Vec(Fx(1, 0), Fx(2, 0), Fx(3, 0)), Zero3}

\* Among the axes: the zero vector, one shorter than 0.001, one of length 2.
RotateAxes ==
  {Zero3, Vec(0, Fx(0, 500), 0), Vec(0, Scale, 0), Vec(0, 0, Fx(2, 0)),
   Vec(Scale, Scale, Scale), Vec(Fx(0, 600000), 0, 0 - Fx(0, 800000))}

RotateAngles == {0, Fx(0, 50), Fx(1, 570796), 0 - Fx(0, 600000), Fx(3, 0)}

InitRotate == Construct([c \in Ctrl |-> FarStart])

RotateCall ==
  /\ probe.calls < MaxRotateCalls
  /\ \E vec \in RotateVecs, axis \in RotateAxes, angle \in RotateAngles :
       probe' = [vec |-> vec, axis |-> axis, angle |-> angle,
                 out |-> rotateAroundAxis(vec, axis, angle),
                 calls |-> probe.calls + 1]
  /\ UNCHANGED <<cam, initialPos, mode, orbitAngle, orbitRadius, cinematicTime,
                 currentSpeedForward, currentSpeedUp, currentRotSpeedUp,
                 currentRotSpeedRight, currentRotSpeedForward, keys, last, count,
                 resolution>>

NextRotate == RotateCall

SpecRotate == InitRotate /\ [][NextRotate]_vars

(***************************************************************************)
(* SpecManual: controller 1 stays in Manual mode; frames of 1/4 s and of   *)
(* 4 s, the latter long enough for exp(-easingFactor * deltaTime) to       *)
(* vanish against 1.                                                       *)
(***************************************************************************)
MaxManualCalls == 3

MaxManualExternal == 1

FrameStalled == Fx(4, 0)

ManualTimes == {FrameLong, FrameStalled}

ManualKeys == {{}, {"W"}, {"D", "J"}, {"K", "U"}}

InitManual == Construct([c \in Ctrl |-> FarStart])

ManualUpdate ==
  /\ Calls < MaxManualCalls
  /\ \E dt \in ManualTimes, ks \in ManualKeys : Update(1, dt, ks)

ManualExternal ==
  /\ Calls < MaxManualCalls
  /\ count.external < MaxManualExternal
  /\ \E field \in {"forward", "right", "up"} : ExternalZero(1, field)

NextManual == ManualUpdate \/ ManualExternal

SpecManual == InitManual /\ [][NextManual]_vars

(***************************************************************************)
(* SpecSpeeds: keys are pressed during a first Manual update of 1/60 s;    *)
(* then controller 1 is updated, cycled through the modes and reset in any *)
(* order, the keys being held or released.                                 *)
(***************************************************************************)
MaxSpeedCalls == 6

PressedKeys == {{"D", "W", "J"}, {"A", "S", "L", "I", "O"}}

InitSpeeds == Construct([c \in Ctrl |-> FarStart])

SpeedsPress ==
  /\ Calls = 0
  /\ \E ks \in PressedKeys : Update(1, Frame60, ks)

SpeedsUpdate ==
  /\ Calls > 0
  /\ Calls < MaxSpeedCalls
  /\ \E ks \in {{}, keys} : Update(1, Frame60, ks)

SpeedsCycleMode ==
  /\ Calls > 0
  /\ Calls < MaxSpeedCalls
  /\ \E ks \in {{}, keys} : CycleMode(1, ks)

SpeedsReset ==
  /\ Calls > 0
  /\ Calls < MaxSpeedCalls
  /\ Reset(1)

NextSpeeds == SpeedsPress \/ SpeedsUpdate \/ SpeedsCycleMode \/ SpeedsReset

SpecSpeeds == InitSpeeds /\ [][NextSpeeds]_vars

(***************************************************************************)
(* SpecResolution: one ResolutionManager; between its calls the file may   *)
(* be rewritten or removed from outside.                                   *)
(***************************************************************************)
MaxResolutionCalls == 3

\* Contents of the file: empty, white space only, no digit, out of range,
\* in range, a number followed by text, a number too large for an int.
FileTexts ==
  {<<>>, <<" ", "\n">>, <<"x">>, <<"-">>, <<"-", "1", "\n">>, <<"1", "1", "\n">>,
   <<"7", "\n">>, <<" ", "1", "0">>, <<"3", "x">>,
   <<"9", "9", "9", "9", "9", "9", "9", "9", "9", "9", "9">>}

\* Values an int declared without an initializer may hold.
IndeterminateInts == {0 - 1, 3, 10, NUM_PRESETS, IntMax}

SetArgs == {0 - 1, 0, 10, NUM_PRESETS, 12}

InitResolution ==
  /\ ConstructCameras([c \in Ctrl |-> FarStart])
  /\ \E home \in BOOLEAN, exists \in BOOLEAN, text \in FileTexts,
        indeterminate \in IndeterminateInts :
       /\ ~exists => text = <<>>
       /\ ResolutionManager(home, exists, text, indeterminate)

\* A call on the manager or a change of the file ends: index, exists and
\* text are what it leaves.
ResolutionCall(name, arg, index, exists, text) ==
  /\ resolution.calls < MaxResolutionCalls
  /\ resolution' = [resolution EXCEPT !.currentIndex = index, !.exists = exists,
                                      !.text = text, !.name = name, !.arg = arg,
                                      !.before = resolution.currentIndex,
                                      !.calls = @ + 1]
  /\ UNCHANGED <<cam, initialPos, mode, orbitAngle, orbitRadius, cinematicTime,
                 currentSpeedForward, currentSpeedUp, currentRotSpeedUp,
                 currentRotSpeedRight, currentRotSpeedForward, keys, last, count,
                 probe>>

ResolutionNext ==
  ResolutionCall("next", 0, NextIndex(resolution.currentIndex),
                 resolution.exists, resolution.text)

ResolutionPrevious ==
  ResolutionCall("previous", 0, PreviousIndex(resolution.currentIndex),
                 resolution.exists, resolution.text)

ResolutionSet ==
  \E index \in SetArgs :
    ResolutionCall("setResolution", index, Accepted(resolution.currentIndex, index),
                   resolution.exists, resolution.text)

\* saveResolution(): nothing without HOME; otherwise the file is rewritten.
ResolutionSave ==
  IF resolution.home
    THEN ResolutionCall("saveResolution", 0, resolution.currentIndex, TRUE,
                        Formatted(resolution.currentIndex))
  ELSE ResolutionCall("saveResolution", 0, resolution.currentIndex,
                      resolution.exists, resolution.text)

ResolutionLoad ==
  \E indeterminate \in IndeterminateInts :
    ResolutionCall("loadResolution", 0,
                   Loaded(resolution.currentIndex, resolution.home, resolution.exists,
                          resolution.text, indeterminate),
                   resolution.exists, resolution.text)

\* The file is rewritten or removed by something else.
ResolutionFile ==
  \/ \E text \in FileTexts :
       ResolutionCall("file", 0, resolution.currentIndex, TRUE, text)
  \/ ResolutionCall("file", 0, resolution.currentIndex, FALSE, <<>>)

NextResolution ==
  \/ ResolutionNext \/ ResolutionPrevious \/ ResolutionSet
  \/ ResolutionSave \/ ResolutionLoad \/ ResolutionFile

SpecResolution == InitResolution /\ [][NextResolution]_vars

(***************************************************************************)
(* Properties.                                                             *)
(***************************************************************************)
\* 1e-3, the tolerance of the testable properties (specification 8).
Tolerance == Fx(0, 1000)

Near(a, b, tol) == Abs(a - b) <= tol

NearVec(a, b, tol) == \A i \in 1..3 : Near(a[i], b[i], tol)

\* |forward|, |right|, |up| within Tolerance of 1, pairwise dot products within
\* Tolerance of 0, and (right x forward) . up >= 0.
Orthonormal(c) ==
  /\ Near(Length(c.forward), Scale, Tolerance)
  /\ Near(Length(c.right), Scale, Tolerance)
  /\ Near(Length(c.up), Scale, Tolerance)
  /\ Near(Dot(c.forward, c.right), 0, Tolerance)
  /\ Near(Dot(c.forward, c.up), 0, Tolerance)
  /\ Near(Dot(c.right, c.up), 0, Tolerance)
  /\ Dot(Cross(c.right, c.forward), c.up) >= 0

AfterCall == last.name \in {"update", "cycleMode", "reset"}

ModeAfter(m) ==
  CASE m = "Manual" -> "SmoothOrbit"
    [] m = "SmoothOrbit" -> "WaveMotion"
    [] m = "WaveMotion" -> "RisingSpiral"
    [] m = "RisingSpiral" -> "CloseFlyby"
    [] m = "CloseFlyby" -> "Manual"

\* C2: the controller starts in Manual; cycleMode() moves to the next mode of
\* the order Manual, SmoothOrbit, WaveMotion, RisingSpiral, CloseFlyby, Manual,
\* so the mode is Manual exactly after a multiple of 5 calls, and every call
\* leaves orbitAngle = 0 and cinematicTime = 0.
C2_ModeCycle ==
  /\ count.cycleMode = 0 => mode[1] = "Manual"
  /\ (mode[1] = "Manual") <=> (count.cycleMode % 5 = 0)
  /\ last.name = "cycleMode" =>
       /\ mode[1] = ModeAfter(last.mode)
       /\ orbitAngle[1] = 0
       /\ cinematicTime[1] = 0
  /\ last.name # "cycleMode" => mode[1] = last.mode

C2_Witness ==
  /\ last.name = "cycleMode"
  /\ count.cycleMode = 5
  /\ count.update > 0
  /\ last.orbitAngle > 0
  /\ mode[1] = "Manual"

\* Rounding slack of a few arithmetic steps (5e-6).
RoundOff == Fx(0, 5)

\* C3: in every cinematic mode the forward vector after update() is
\* normalize(origin - position), whatever rotation keys are held and whatever
\* rotation rates were accumulated.
C3_CinematicLooksAtOrigin ==
  (last.name = "update" /\ mode[1] # "Manual") =>
    NearVec(cam[1].forward, Normalized(VSub(Origin, cam[1].position)), RoundOff)

\* The target the specification gives an axis: +base for the positive key
\* alone, -base for the negative key alone, 0 for neither or both.
ClaimedTarget(ks, positive, negative, base) ==
  IF positive \in ks /\ negative \notin ks THEN base
  ELSE IF negative \in ks /\ positive \notin ks THEN 0 - base
  ELSE 0

ClaimedTargets(ks) ==
  <<ClaimedTarget(ks, "D", "A", baseMoveSpeed),
    ClaimedTarget(ks, "W", "S", baseMoveSpeed),
    ClaimedTarget(ks, "J", "L", rotationSpeed),
    ClaimedTarget(ks, "I", "K", rotationSpeed),
    ClaimedTarget(ks, "U", "O", rotationSpeed)>>

\* C4: on each of the five axes the target speed of an update is +base for
\* the positive key alone, -base for the negative key alone and 0 for neither
\* or both; after a frame long enough for the smoothing factor to be 1 the
\* eased speed is that target.
C4_TargetSpeeds ==
  (last.name = "update" /\ last.deltaTime = SettleTime) =>
    \A i \in 1..5 : Near(statics[i], ClaimedTargets(keys)[i], RoundOff)

Basis(c) == <<c.forward, c.right, c.up>>

Short(v) == Length(v) < Tolerance

C6_Reset ==
  last.name = "reset" =>
    /\ cam[1].position = initialPos[1]
    /\ NearVec(cam[1].forward, Normalized(VSub(Origin, initialPos[1])), RoundOff)
    /\ Orthonormal(cam[1])
    /\ cam[1].right[2] = 0
    /\ orbitAngle[1] = 0
    /\ cinematicTime[1] = 0

C6_Witness ==
  /\ last.name = "reset"
  /\ last.mode # "Manual"
  /\ last.cam.position # initialPos[1]
  /\ last.orbitAngle > 0
  /\ last.cinematicTime > 0

\* C7 as stated: cycleMode() leaves all the smoothed speeds as they were.
C7_CycleModeKeepsSpeeds == last.name = "cycleMode" => statics = last.statics

\* 1 - exp(-15 * 0.016)
CycleSmoothing == Fx(0, 213372)

\* C7 amended: cycleMode() leaves the two translational smoothed speeds as
\* they were and moves each of the three rotational rates one smoothing step
\* of the nominal frame (factor 1 - exp(-0.24)) toward the target of the keys
\* held; a rate is preserved only when it is already at its target.
C7_CycleModeEasesRotation ==
  last.name = "cycleMode" =>
    /\ statics[1] = last.statics[1]
    /\ statics[2] = last.statics[2]
    /\ \A i \in 3..5 :
         Near(statics[i] - last.statics[i],
              Mul(ClaimedTargets(keys)[i] - last.statics[i], CycleSmoothing), RoundOff)

C7_Witness ==
  /\ last.name = "cycleMode"
  /\ last.statics[1] # 0
  /\ last.statics[3] # 0
  /\ statics[3] # last.statics[3]
  /\ keys = {}

\* C8: the smoothed speeds are per-controller state: an update() or
\* cycleMode() on controller 1 leaves the speeds controller 2 goes on from
\* as they were.
C8_SpeedsPerController ==
  (last.name \in {"update", "cycleMode"} /\ last.c = 1) => statics = last.statics

\* C9: a RisingSpiral update whose height 1.0 + cinematicTime * 0.4 exceeds
\* 8.0 sets the height to 1.0 and cinematicTime to 0, so that after every
\* RisingSpiral update position.y <= 8.0 and cinematicTime <= 17.5.
C9_SpiralWrap ==
  (last.name = "update" /\ mode[1] = "RisingSpiral") =>
    /\ cam[1].position[2] <= Fx(8, 0)
    /\ cinematicTime[1] <= Fx(17, 500000)
    /\ IF last.cinematicTime + last.deltaTime > Fx(17, 500000)
         THEN cam[1].position[2] = Fx(1, 0) /\ cinematicTime[1] = 0
         ELSE /\ cinematicTime[1] = last.cinematicTime + last.deltaTime
              /\ Near(cam[1].position[2],
                      Fx(1, 0) + Mul(cinematicTime[1], Fx(0, 400000)), RoundOff)

C9_Witness ==
  /\ last.name = "update"
  /\ mode[1] = "RisingSpiral"
  /\ last.cinematicTime > 0
  /\ last.cinematicTime + last.deltaTime > Fx(17, 500000)
  /\ cinematicTime[1] = 0

\* C10: a single key held for HoldSteps updates of 1/60 s from rest brings
\* the speed of its axis to within 1e-3 of its target, and HoldSteps more
\* updates with the key released bring it back to within 1e-3 of 0, on the
\* translational and on the rotational axes.
C10_SmootherConverges ==
  /\ count.update = HoldSteps =>
       \A i \in 1..5 : Near(statics[i], ClaimedTargets(keys)[i], Tolerance)
  /\ count.update = 2 * HoldSteps =>
       \A i \in 1..5 : Near(statics[i], 0, Tolerance)

C10_Witness ==
  /\ count.update = 2 * HoldSteps
  /\ keys = {}
  /\ \E i \in 1..5 : Abs(last.statics[i]) > 0

\* Both runs have made the same calls.
RunsLevel == Calls > 0 /\ Calls % 2 = 0

\* C11: two runs in the same cinematic mode, from orbitAngle = 0 and
\* cinematicTime = 0, under the same sequence of deltaTime, pass through the
\* same camera positions and phases, whatever keys are down, whatever the
\* smoothed speeds are and wherever the cameras stood and looked before.
C11_TrajectoryDeterminism ==
  RunsLevel =>
    /\ mode[1] = mode[2]
    /\ orbitAngle[1] = orbitAngle[2]
    /\ cinematicTime[1] = cinematicTime[2]
    /\ (last.name = "update" /\ mode[1] # "Manual") =>
         cam[1].position = cam[2].position

C11_Witness ==
  /\ RunsLevel
  /\ last.name = "update"
  /\ last.deltaTime > 0
  /\ mode[2] \notin {"Manual", "SmoothOrbit"}
  /\ last.orbitAngle > 0
  /\ last.cam.position # cam[2].position
  /\ statics[3] # 0
  /\ cam[1].forward # cam[2].forward

\* The smooth orbit at a = 2.25, to five decimals.
SmoothOrbitAfterNine == Vec(0 - Fx(9, 422610), Fx(4, 353402), Fx(11, 671095))

\* C12: after a SmoothOrbit update the position is
\* (cos(a) * 15, 3 + sin(a * 0.5) * 1.5, sin(a) * 15), a being orbitAngle
\* advanced by 0.25 * deltaTime in that update; at a = 0 it is (15, 3, 0);
\* orbitRadius is 15.0.
C12_SmoothOrbit ==
  (last.name = "update" /\ last.mode = "SmoothOrbit") =>
    /\ orbitAngle[last.c] = last.orbitAngle + Mul(Fx(0, 250000), last.deltaTime)
    /\ orbitRadius[last.c] = Fx(15, 0)
    /\ NearVec(cam[last.c].position,
               Vec(Mul(Cos(orbitAngle[last.c]), Fx(15, 0)),
                   Fx(3, 0) + Mul(Sin(Mul(orbitAngle[last.c], Fx(0, 500000))), Fx(1, 500000)),
                   Mul(Sin(orbitAngle[last.c]), Fx(15, 0))), RoundOff)
    /\ orbitAngle[last.c] = 0 => cam[last.c].position = Vec(Fx(15, 0), Fx(3, 0), 0)
    /\ orbitAngle[last.c] = Fx(2, 250000) =>
         NearVec(cam[last.c].position, SmoothOrbitAfterNine, Fx(0, 100))

C12_Witness ==
  /\ last.name = "update"
  /\ last.mode = "SmoothOrbit"
  /\ last.c = 2
  /\ last.orbitAngle = Fx(2, 250000)
  /\ orbitAngle[2] = Fx(4, 500000)
  /\ keys # {}

\* No rotation is applied by the latest update: every per-frame angle is
\* within the skip threshold.
NoRotation == \A i \in 3..5 : Abs(Mul(statics[i], last.deltaTime)) <= MinRotation

Frames == {"forward", "right", "up"}

\* C13: a Manual update that applies no rotation to a valid orthonormal
\* right-handed frame leaves forward, right and up where they were, to the
\* last decimal carried (1e-6), and from the second such update in a row on
\* the frame comes back exactly as it went in.
C13_RepairIdempotent ==
  (last.name = "update" /\ last.mode = "Manual" /\ NoRotation
     /\ Orthonormal(last.cam)) =>
    /\ \A f \in Frames : NearVec(cam[1][f], last.cam[f], Fx(0, 1))
    /\ Orthonormal(cam[1])
    /\ count.update >= HoldSteps + 18 => \A f \in Frames : cam[1][f] = last.cam[f]

C13_Witness ==
  /\ last.name = "update"
  /\ last.mode = "Manual"
  /\ NoRotation
  /\ count.update = 2 * HoldSteps
  /\ Orthonormal(last.cam)
  /\ cam[1].right[2] # 0
  /\ cam[1] = last.cam

\* C14: reset() leaves the smoothed speeds as they were, so that a Manual
\* update with no key down right after it still moves the camera by the
\* leftover translational speed and turns it by the leftover rotational rate
\* (a leftover of at least 1e-3 per second, an angle above the skip threshold).
C14_ResetKeepsSpeeds ==
  /\ last.name = "reset" => statics = last.statics
  /\ ( /\ last.name = "update" /\ last.mode = "Manual" /\ keys = {}
       /\ count.reset > 0
       /\ last.cam = Camera(initialPos[1])
       /\ Abs(statics[1]) >= Tolerance
       /\ Abs(Mul(statics[3], last.deltaTime)) > MinRotation ) =>
       /\ cam[1].position # initialPos[1]
       /\ cam[1].forward # last.cam.forward

C14_Witness ==
  /\ last.name = "update"
  /\ last.mode = "Manual"
  /\ keys = {}
  /\ count.reset = 1
  /\ count.update = 2
  /\ last.cam = Camera(initialPos[1])
  /\ Abs(statics[1]) >= Tolerance
  /\ Abs(Mul(statics[3], last.deltaTime)) > MinRotation
  /\ cam[1].position # initialPos[1]

\* The part of a vector across a unit axis.
Across(v, n) == VSub(v, VScale(n, Dot(n, v)))

\* Slack for products of vectors of length up to 4 (5e-5).
ProductSlack == Fx(0, 50)

\* C15: rotateAroundAxis(v, axis, angle) is v when angle = 0 or the axis is
\* shorter than 0.001; otherwise it is v turned by angle about the normalized
\* axis: the part of v along the axis is kept, the part across it keeps its
\* length and makes the angle with what it was, counterclockwise about the
\* axis; (1, 0, 0) turned a quarter about (0, 0, 2) is (0, 1, 0).
C15_RotateAroundAxis ==
  probe.calls > 0 =>
    IF probe.angle = 0 \/ Length(probe.axis) < Tolerance
      THEN probe.out = probe.vec
      ELSE /\ Near(Dot(probe.out, Normalized(probe.axis)),
                   Dot(probe.vec, Normalized(probe.axis)), ProductSlack)
           /\ Near(Dot(Across(probe.out, Normalized(probe.axis)),
                       Across(probe.vec, Normalized(probe.axis))),
                   Mul(Dot(Across(probe.vec, Normalized(probe.axis)),
                           Across(probe.vec, Normalized(probe.axis))),
                       Cos(probe.angle)), ProductSlack)
           /\ Near(Dot(Cross(probe.vec, probe.out), Normalized(probe.axis)),
                   Mul(Dot(Across(probe.vec, Normalized(probe.axis)),
                           Across(probe.vec, Normalized(probe.axis))),
                       Sin(probe.angle)), ProductSlack)
           /\ ( /\ probe.vec = Vec(Scale, 0, 0)
                /\ probe.axis = Vec(0, 0, Fx(2, 0))
                /\ probe.angle = Fx(1, 570796) ) =>
                NearVec(probe.out, Vec(0, Scale, 0), RoundOff)

C15_Witness ==
  /\ probe.calls > 0
  /\ probe.vec = Vec(Fx(1, 0), Fx(2, 0), Fx(3, 0))
  /\ probe.axis = Vec(Scale, Scale, Scale)
  /\ probe.angle = Fx(3, 0)
  /\ probe.out # probe.vec

\* C16: the basis repair is forward-primary: a Manual update that applies no
\* rotation keeps forward, normalized, whenever its length is at least 0.001,
\* also when right or up is zero-length; forward becomes the look-at direction
\* normalize(origin - position) only when forward itself is shorter than 0.001.
C16_ForwardPrimary ==
  (last.name = "update" /\ last.mode = "Manual" /\ NoRotation) =>
    IF Length(last.cam.forward) >= Tolerance
      THEN NearVec(cam[1].forward, Normalized(last.cam.forward), RoundOff)
      ELSE NearVec(cam[1].forward, Normalized(VSub(Origin, cam[1].position)), RoundOff)

\* The targets the latest update eased toward.
Targets(ks) ==
  <<targetSpeedForward(ks), targetSpeedUp(ks), targetRotSpeedUp(ks),
    targetRotSpeedRight(ks), targetRotSpeedForward(ks)>>

Bases == <<baseMoveSpeed, baseMoveSpeed, rotationSpeed, rotationSpeed, rotationSpeed>>

\* Every smoothed speed is within [-base, +base].
SpeedsBounded == \A i \in 1..5 : Abs(statics[i]) <= Bases[i]

\* C17 as stated: the smoothing factor of every update lies in [0, 1), and
\* the smoothed speeds stay within [-base, +base].
C17_SmoothingBelowOne ==
  /\ SpeedsBounded
  /\ last.name = "update" =>
       /\ 0 <= moveSmoothing(last.deltaTime) /\ moveSmoothing(last.deltaTime) < Scale
       /\ 0 <= rotSmoothing(last.deltaTime) /\ rotSmoothing(last.deltaTime) < Scale

\* C17 amended: the smoothing factor lies in [0, 1], reaching 1 when
\* exp(-easingFactor * deltaTime) vanishes against 1, and the speed is then
\* the target itself; each update leaves a smoothed speed between what it
\* was and its target, so from 0 on every speed stays within [-base, +base].
C17_SmoothingAtMostOne ==
  /\ SpeedsBounded
  /\ moveSmoothing(0) = 0 /\ rotSmoothing(0) = 0
  /\ last.name = "update" =>
       /\ 0 <= moveSmoothing(last.deltaTime) /\ moveSmoothing(last.deltaTime) <= Scale
       /\ 0 <= rotSmoothing(last.deltaTime) /\ rotSmoothing(last.deltaTime) <= Scale
       /\ \A i \in 1..5 :
            /\ Min(last.statics[i], Targets(keys)[i]) <= statics[i]
            /\ statics[i] <= Max(last.statics[i], Targets(keys)[i])
       /\ last.deltaTime = FrameStalled => statics = Targets(keys)

C17_Witness ==
  /\ last.name = "update"
  /\ last.deltaTime = FrameStalled
  /\ moveSmoothing(last.deltaTime) = Scale
  /\ keys = {"D", "J"}
  /\ last.statics[1] # statics[1]
  /\ statics[1] = baseMoveSpeed
  /\ statics[3] = rotationSpeed

\* position + forward * (speedForward * dt) + up * (speedUp * dt)
MovedAlong(c, speedForward, speedUp, deltaTime) ==
  VAdd(c.position, VAdd(VScale(c.forward, Mul(speedForward, deltaTime)),
                        VScale(c.up, Mul(speedUp, deltaTime))))

\* C18: update() advances the position before it recomputes the
\* orientation: in Manual mode the position moves by
\* forward * currentSpeedForward * dt + up * currentSpeedUp * dt along forward
\* and up as they were before this update's rotation, and with both speeds 0
\* and no translation key down it stays where it was.
C18_PositionBeforeOrientation ==
  (last.name = "update" /\ last.mode = "Manual") =>
    /\ NearVec(cam[1].position,
               MovedAlong(last.cam, statics[1], statics[2], last.deltaTime), RoundOff)
    /\ (last.statics[1] = 0 /\ last.statics[2] = 0 /\ keys \cap MoveKeys = {}) =>
         cam[1].position = last.cam.position

C18_Witness ==
  /\ last.name = "update"
  /\ last.mode = "Manual"
  /\ last.deltaTime = FrameLong
  /\ keys = {"D", "J"}
  /\ last.statics[3] # 0
  /\ ~NearVec(cam[1].forward, last.cam.forward, Tolerance)
  /\ ~NearVec(cam[1].position, last.cam.position, Tolerance)

\* One rotation of a frame about its own basis vector `axis`: the two other
\* basis vectors turn, the axis stays; an angle within 1e-4 is skipped.
Turned(fr, axis, angle) ==
  IF Abs(angle) <= Fx(0, 100) THEN fr
  ELSE [f \in Frames |->
          IF f = axis THEN fr[f] ELSE rotateAroundAxis(fr[f], fr[axis], angle)]

\* The per-frame angle of the latest update about axis i of the statics.
FrameAngle(i) == Mul(statics[i], last.deltaTime)

\* Yaw about up, then pitch about the right that the yaw left, then roll
\* about the forward that yaw and pitch left.
YawPitchRoll(fr) ==
  Turned(Turned(Turned(fr, "up", FrameAngle(3)), "right", FrameAngle(4)),
         "forward", FrameAngle(5))

\* Slack for three rotations and the repair that follows them (1e-5).
TurnSlack == Fx(0, 10)

\* C19: the three per-frame rotations are applied in the order yaw (about
\* up), pitch (about the right left by the yaw), roll (about the forward left
\* by yaw and pitch); each turns only the two basis vectors other than its
\* axis, and a rotation whose angle is within 1e-4 is skipped while the
\* others are applied.
C19_RotationOrder ==
  (last.name = "update" /\ last.mode = "Manual" /\ ~Invalid(last.cam)) =>
    \A f \in Frames :
      NearVec(cam[1][f], YawPitchRoll([g \in Frames |-> last.cam[g]])[f], TurnSlack)

C19_Witness ==
  /\ last.name = "update"
  /\ last.mode = "Manual"
  /\ ~Invalid(last.cam)
  /\ Abs(FrameAngle(3)) > 0
  /\ Abs(FrameAngle(3)) <= MinRotation
  /\ Abs(FrameAngle(4)) > Tolerance
  /\ Abs(FrameAngle(5)) > Tolerance
  /\ cam[1].forward[1] # 0

\* Radians per second by which each mode advances orbitAngle.
AngularRate(m) ==
  CASE m = "Manual" -> 0
    [] m = "SmoothOrbit" -> Fx(0, 250000)
    [] m = "WaveMotion" -> Fx(0, 300000)
    [] m = "RisingSpiral" -> Fx(0, 350000)
    [] m = "CloseFlyby" -> Fx(0, 500000)

\* C20: orbitAngle never decreases across update() calls and is never
\* wrapped: a cinematic update adds 0.25, 0.3, 0.35 or 0.5 times deltaTime by
\* mode, a Manual update leaves it and orbitRadius as they were, and only
\* cycleMode() and reset() set it back to 0.
C20_OrbitAngleMonotonic ==
  /\ \A c \in Ctrl : orbitAngle[c] >= 0
  /\ last.name = "update" =>
       /\ orbitAngle[last.c] >= last.orbitAngle
       /\ orbitAngle[last.c] =
            last.orbitAngle + Mul(AngularRate(last.mode), last.deltaTime)
       /\ last.mode = "Manual" => orbitRadius[last.c] = last.orbitRadius
  /\ last.name \in {"cycleMode", "reset"} => orbitAngle[last.c] = 0
  /\ (last.c \in Ctrl /\ orbitAngle[last.c] < last.orbitAngle) =>
       last.name \in {"cycleMode", "reset"}

C20_Witness ==
  /\ last.name = "update"
  /\ last.c = 2
  /\ last.mode = "CloseFlyby"
  /\ last.orbitAngle > 0
  /\ orbitAngle[2] > 2 * Pi
  /\ count.reset > 0

\* The height of the rising spiral at the advanced time passes 8.0.
SpiralWraps ==
  /\ last.mode = "RisingSpiral"
  /\ Fx(1, 0) + Mul(last.cinematicTime + last.deltaTime, Fx(0, 400000)) > Fx(8, 0)

\* C21: cinematicTime is set to 0 only by cycleMode(), by reset() and by the
\* RisingSpiral wrap; every update() in every mode, Manual included, adds
\* deltaTime to it before the position step of the mode, so that it is the
\* sum of the deltaTime values since the latest of those events.
C21_ElapsedTime ==
  /\ last.name \in {"cycleMode", "reset"} => cinematicTime[last.c] = 0
  /\ last.name = "update" =>
       /\ cinematicTime[last.c] =
            IF SpiralWraps THEN 0 ELSE last.cinematicTime + last.deltaTime
       /\ (last.mode = "RisingSpiral" /\ ~SpiralWraps) =>
            Near(cam[last.c].position[2],
                 Fx(1, 0) + Mul(last.cinematicTime + last.deltaTime, Fx(0, 400000)),
                 RoundOff)
  /\ (last.c \in Ctrl /\ cinematicTime[last.c] < last.cinematicTime) =>
       \/ last.name \in {"cycleMode", "reset"}
       \/ last.name = "update" /\ SpiralWraps

C21_Witness ==
  /\ last.name = "update"
  /\ last.mode = "Manual"
  /\ last.deltaTime > 0
  /\ last.cinematicTime > 0
  /\ cinematicTime[last.c] = 2 * last.deltaTime
  /\ count.cycleMode = 0
  /\ count.reset = 0

\* Where each trajectory stands at orbitAngle = 0 and cinematicTime = 0.
TrajectoryStart(m) ==
  CASE m = "SmoothOrbit" -> Vec(Fx(15, 0), Fx(3, 0), 0)
    [] m = "WaveMotion" -> Vec(Fx(12, 0), Fx(2, 0), 0)
    [] m = "RisingSpiral" -> Vec(Fx(10, 0), Fx(1, 0), 0)
    [] m = "CloseFlyby" -> Vec(Fx(6, 0), Fx(3, 500000), 0)

\* The angle by which one orientation update of the nominal frame can turn
\* forward: yaw plus pitch (roll turns about forward).
NominalTurn ==
  Abs(Mul(statics[3], TypicalFrameTime)) + Abs(Mul(statics[4], TypicalFrameTime))

\* C22: cycleMode() leaves the camera position, initialPosition and
\* orbitRadius as they were; the orientation update it forces looks from the
\* position the camera had before the call, and the position first moves
\* onto the trajectory of the new mode at the next update().
C22_CycleModeKeepsPosition ==
  /\ initialPos[1] = FarStart
  /\ last.name = "cycleMode" =>
       /\ cam[last.c].position = last.cam.position
       /\ orbitRadius[last.c] = last.orbitRadius
       /\ mode[last.c] # "Manual" =>
            NearVec(cam[last.c].forward,
                    Normalized(VSub(Origin, last.cam.position)),
                    NominalTurn + RoundOff)
  /\ (/\ last.name = "update" /\ last.mode # "Manual" /\ last.deltaTime = 0
      /\ last.orbitAngle = 0 /\ last.cinematicTime = 0) =>
       NearVec(cam[last.c].position, TrajectoryStart(last.mode), RoundOff)

C22_Witness ==
  /\ last.name = "cycleMode"
  /\ mode[last.c] = "WaveMotion"
  /\ last.orbitAngle > 0
  /\ cam[last.c].position # initialPos[last.c]
  /\ ~NearVec(cam[last.c].position, TrajectoryStart("WaveMotion"), Scale)
  /\ ~NearVec(cam[last.c].forward,
              Normalized(VSub(Origin, TrajectoryStart("WaveMotion"))), Tolerance)

\* Where each trajectory stands nine seconds after phase 0, to five decimals.
TrajectoryAfterNine(m) ==
  CASE m = "SmoothOrbit" -> SmoothOrbitAfterNine
    [] m = "WaveMotion" -> Vec(0 - Fx(10, 848866), 0 - Fx(0, 365576), 0 - Fx(6, 182116))
    [] m = "RisingSpiral" -> Vec(0 - Fx(11, 281741), Fx(4, 600000), 0 - Fx(0, 94852))
    [] m = "CloseFlyby" -> Vec(0 - Fx(1, 261230), Fx(3, 315267), 0 - Fx(5, 848744))

\* The latest call is an update() in a cinematic mode that starts where
\* reset() leaves the controller.
UpdateAfterReset ==
  /\ last.name = "update"
  /\ last.mode # "Manual"
  /\ count.reset > 0
  /\ last.cam.position = initialPos[last.c]
  /\ last.orbitAngle = 0
  /\ last.cinematicTime = 0

\* C23: reset() leaves the mode as it was and no update() changes the mode,
\* only cycleMode() does; after reset() in a cinematic mode the next update()
\* replaces the restored initial position by the point of the trajectory at
\* phase 0 advanced by one deltaTime.
C23_ResetKeepsMode ==
  /\ last.name \in {"update", "reset"} => mode[last.c] = last.mode
  /\ (last.c \in Ctrl /\ mode[last.c] # last.mode) => last.name = "cycleMode"
  /\ (last.name = "reset" /\ last.mode # "Manual") =>
       cam[last.c].position = initialPos[last.c]
  /\ (UpdateAfterReset /\ last.deltaTime = 0) =>
       NearVec(cam[last.c].position, TrajectoryStart(last.mode), RoundOff)
  /\ (UpdateAfterReset /\ last.deltaTime = Fx(9, 0)) =>
       NearVec(cam[last.c].position, TrajectoryAfterNine(last.mode), Fx(0, 100))

C23_Witness ==
  /\ UpdateAfterReset
  /\ last.mode = "RisingSpiral"
  /\ last.deltaTime = Fx(9, 0)
  /\ mode[last.c] = "RisingSpiral"
  /\ cam[last.c].position # initialPos[last.c]

\* The targets of the three rotational rates under the keys of the latest call.
RotTargets ==
  <<0, 0, targetRotSpeedUp(keys), targetRotSpeedRight(keys),
    targetRotSpeedForward(keys)>>

\* 1 - exp(-15 * deltaTime) for the frame time of the latest call.
LatestRotSmoothing == Scale - ExpNeg(Mul(Fx(15, 0), last.deltaTime))

\* Rate i has made one smoothing step toward its target.
SteppedTowardTarget(i, smoothing) ==
  /\ Near(statics[i] - last.statics[i],
          Mul(RotTargets[i] - last.statics[i], smoothing), RoundOff)
  /\ Abs(RotTargets[i] - last.statics[i]) > Tolerance =>
       Abs(RotTargets[i] - statics[i]) < Abs(RotTargets[i] - last.statics[i])

\* C24: the two translational smoothed speeds change only in Manual-mode
\* updates: update() in a cinematic mode, cycleMode() and reset() leave them
\* as they were, keys released or not, whereas the three rotational rates
\* are advanced toward their targets by every update() in every mode and by
\* cycleMode().
C24_SpeedsByMode ==
  /\ (\/ last.name = "update" /\ last.mode # "Manual"
      \/ last.name \in {"cycleMode", "reset"}) =>
       /\ statics[1] = last.statics[1]
       /\ statics[2] = last.statics[2]
  /\ (statics[1] # last.statics[1] \/ statics[2] # last.statics[2]) =>
       last.name = "update" /\ last.mode = "Manual"
  /\ last.name \in {"update", "cycleMode"} =>
       \A i \in 3..5 : SteppedTowardTarget(i, LatestRotSmoothing)
  /\ last.name = "reset" => statics = last.statics

C24_Witness ==
  /\ last.name = "update"
  /\ last.mode = "CloseFlyby"
  /\ keys = {}
  /\ Abs(last.statics[1]) > Tolerance
  /\ Abs(last.statics[2]) > Tolerance
  /\ statics[1] = last.statics[1]
  /\ Abs(last.statics[3]) > Tolerance
  /\ Abs(statics[3]) < Abs(last.statics[3])

PresetIndices == 0..(NUM_PRESETS - 1)

\* The file can be read and, white space aside, begins with the decimal
\* number of a preset.
SavedPreset(rest) ==
  /\ resolution.home
  /\ resolution.exists
  /\ rest # <<>>
  /\ \/ IsDigit(Head(rest))
     \/ Head(rest) \in {"+", "-"} /\ Len(rest) > 1 /\ IsDigit(rest[2])
  /\ Signed(rest) \in PresetIndices

\* C25: the current index of the ResolutionManager is a preset index in
\* [0, NUM_PRESETS), NUM_PRESETS = 11, after construction and after any
\* sequence of next(), previous(), setResolution(i) and loadResolution():
\* next and previous wrap around at the ends, and setResolution with i out of
\* range, or a load of an out-of-range or missing saved value, leaves the
\* index as it was.
C25_IndexValid ==
  /\ NUM_PRESETS = 11
  /\ resolution.currentIndex \in PresetIndices
  /\ resolution.name = "next" =>
       resolution.currentIndex = IF resolution.before = 10 THEN 0
                                 ELSE resolution.before + 1
  /\ resolution.name = "previous" =>
       resolution.currentIndex = IF resolution.before = 0 THEN 10
                                 ELSE resolution.before - 1
  /\ resolution.name = "setResolution" =>
       resolution.currentIndex = IF resolution.arg \in PresetIndices
                                   THEN resolution.arg
                                 ELSE resolution.before
  /\ (/\ resolution.name \in {"loadResolution", "construct"}
      /\ ~SavedPreset(SkipWhitespace(resolution.text))) =>
       resolution.currentIndex = resolution.before

=============================================================================
